---------------------------- MODULE Spec2Model ----------------------------
(***************************************************************************)
(* A model of autodepend/autodpd.py: the import extractor, the syntax      *)
(* feature detector, the module classifier and the aggregation done by     *)
(* get_python_version, detect_project_dependencies and                     *)
(* predict_python_environment.                                             *)
(*                                                                         *)
(* Python strings are sequences of one-character strings, so that split,   *)
(* lower, formatting and sorting are computed and not assumed.  Python     *)
(* floats are held in hundredths (3.5 is 350), which is exact for every    *)
(* literal of the program.                                                 *)
(***************************************************************************)
EXTENDS Integers, Sequences, FiniteSets, TLC

VARIABLES
    units,              \* the files Path(directory).rglob('*') yields, in order
    hasMatch,           \* hasattr(ast, 'Match') of the running interpreter
    findSpec,           \* what importlib.util.find_spec answers for a name
    dists,              \* importlib.metadata.distributions()
    pc,                 \* position in predict_python_environment
    i,                  \* index of the next file of the running loop
    required_versions,  \* get_python_version: the accumulated set
    python_version,     \* predict_python_environment: get_python_version's result
    installed_packages, \* detect_project_dependencies: lower-cased name -> version
    imports,            \* detect_project_dependencies: imports of the last file
    dependencies,       \* detect_project_dependencies: the three sets
    deps,               \* predict_python_environment: the returned report
    environment,        \* predict_python_environment: the returned dict
    exc                 \* the exception that escaped, "none" if none

vars == << units, hasMatch, findSpec, dists, pc, i, required_versions,
           python_version, installed_packages, imports, dependencies, deps,
           environment, exc >>

-----------------------------------------------------------------------------
(* Bounds *)

MaxUnits == 2

-----------------------------------------------------------------------------
(* Python str *)

\* ord(c) for the characters the model uses
Ord(c) ==
    CASE c = "." -> 46
      [] c = "1" -> 49
      [] c = "2" -> 50
      [] c = "=" -> 61
      [] c = "N" -> 78
      [] c = "a" -> 97
      [] c = "h" -> 104
      [] c = "i" -> 105
      [] c = "l" -> 108
      [] c = "n" -> 110
      [] c = "o" -> 111
      [] c = "p" -> 112
      [] c = "s" -> 115
      [] c = "t" -> 116

\* str.lower() on one character
LowerChar(c) == IF c = "N" THEN "n" ELSE c

\* str.lower()
Lower(s) == [k \in 1..Len(s) |-> LowerChar(s[k])]

\* s.split('.')[0]: the text before the first '.', the whole text if none
SplitFirst(s) ==
    LET dots == {k \in 1..Len(s) : s[k] = "."}
    IN  IF dots = {} THEN s
        ELSE SubSeq(s, 1, (CHOOSE k \in dots : \A m \in dots : k <= m) - 1)

\* a < b on str: code points, left to right; a proper prefix is smaller
StrLess(a, b) ==
    \E k \in 1..(Len(b)) :
        /\ \A m \in 1..(k-1) : m <= Len(a) /\ a[m] = b[m]
        /\ \/ k > Len(a)
           \/ k <= Len(a) /\ Ord(a[k]) < Ord(b[k])

RECURSIVE sorted(_)
\* sorted(list(S)) for a set of str
sorted(S) ==
    IF S = {} THEN << >>
    ELSE LET least == CHOOSE x \in S : \A y \in S \ {x} : StrLess(x, y)
         IN  << least >> \o sorted(S \ {least})

\* f"{import_name}=={version}"
FormatPin(import_name, version) == import_name \o << "=", "=" >> \o version

-----------------------------------------------------------------------------
(* Module names and the interpreter's environment *)

os      == << "o", "s" >>
os_path == << "o", "s", ".", "p", "a", "t", "h" >>
Np      == << "N", "p" >>
Np_lin  == << "N", "p", ".", "l", "i", "n" >>
np      == << "n", "p" >>

\* sys.stdlib_module_names
stdlib_module_names == { os }

\* the top-level names find_spec is asked about
ModuleNames == { os, Np }

\* ModuleSpec values: find_spec returns None (found = FALSE) or a spec whose
\* origin is a path (a sequence of segments); origin None is the empty path
NoSpec == [found |-> FALSE, origin |-> << >>]
SpecAt(origin) == [found |-> TRUE, origin |-> origin]

Specs ==
    { NoSpec,
      SpecAt(<< >>),
      SpecAt(<< "usr", "lib", "python3", "m.py" >>),
      SpecAt(<< "usr", "lib", "python3", "site-packages", "m.py" >>),
      SpecAt(<< "usr", "lib", "python3", "dist-packages", "m.py" >>) }

\* installed distributions: metadata['Name'] and version
Dist(name, version) == [Name |-> name, version |-> version]
Distributions == { Dist(Np, << "1" >>), Dist(os, << "2" >>) }


-----------------------------------------------------------------------------
(* Python float literals, in hundredths *)

\* the value of the literal <whole>.<frac>, frac being its one or two digits
Float(whole, frac) ==
    whole * 100 + (IF Len(frac) = 1 THEN frac[1] * 10 ELSE frac[1] * 10 + frac[2])

DigitChar(d) ==
    CASE d = 0 -> "0" [] d = 1 -> "1" [] d = 2 -> "2" [] d = 3 -> "3"
      [] d = 4 -> "4" [] d = 5 -> "5" [] d = 6 -> "6" [] d = 7 -> "7"
      [] d = 8 -> "8" [] d = 9 -> "9"

\* str(x) of a float: the shortest decimal text, so 3.10 prints as 3.1
FloatStr(x) ==
    << DigitChar(x \div 100), ".", DigitChar((x % 100) \div 10) >>
    \o (IF x % 10 = 0 THEN << >> ELSE << DigitChar(x % 10) >>)

\* max() of a non-empty set of floats
Max(S) == CHOOSE x \in S : \A y \in S : y <= x

-----------------------------------------------------------------------------
(* Syntax trees: the nodes ast.walk yields *)

Import(names)             == [type |-> "Import", names |-> names]
ImportFrom(module, names, level) ==
    [type |-> "ImportFrom", module |-> module, names |-> names, level |-> level]
NoModule                  == << >>   \* node.module is None
AnnAssign                 == [type |-> "AnnAssign"]
JoinedStr                 == [type |-> "JoinedStr"]
NamedExpr                 == [type |-> "NamedExpr"]
Match                     == [type |-> "Match"]
Name(id)                  == [type |-> "Name", id |-> id]
Attribute(attr)           == [type |-> "Attribute", attr |-> attr]
ClassDef(decorator_list)  == [type |-> "ClassDef", decorator_list |-> decorator_list]
BinOp(left, op, right)    == [type |-> "BinOp", left |-> left, op |-> op, right |-> right]

\* source text: the nodes it parses to, and whether it is malformed
Text(malformed, body) == [malformed |-> malformed, body |-> body]

\* ast.parse: SyntaxError on malformed text, and on a match statement when
\* the grammar of the running interpreter has none
Parse(text, has_match) ==
    IF text.malformed \/ (~has_match /\ \E k \in 1..Len(text.body) : text.body[k].type = "Match")
    THEN [exc |-> "SyntaxError", tree |-> << >>]
    ELSE [exc |-> "none", tree |-> text.body]

\* NodeImports without the test of node.module: a from-import with no module
\* falls back to the names it imports
NodeImportsUnguarded(node) ==
    IF node.type = "Import"
    THEN {SplitFirst(node.names[k]) : k \in 1..Len(node.names)}
    ELSE IF node.type = "ImportFrom"
    THEN IF node.module # NoModule THEN {SplitFirst(node.module)}
         ELSE {SplitFirst(node.names[k]) : k \in 1..Len(node.names)}
    ELSE {}

\* the import branch of the tree walk, for one node
NodeImports(node) ==
    IF node.type = "Import"
    THEN {SplitFirst(node.names[k]) : k \in 1..Len(node.names)}
    ELSE IF node.type = "ImportFrom"
    THEN IF node.module # NoModule THEN {SplitFirst(node.module)} ELSE {}
    ELSE {}

\* the tree walk of analyze_imports and analyze_notebook_imports
TreeImports(tree) == UNION {NodeImports(tree[k]) : k \in 1..Len(tree)}

\* the version branches of the tree walk, for one node
NodeVersions(node, has_match) ==
    (IF node.type = "AnnAssign" THEN {Float(3, << 5 >>)} ELSE {})
    \cup (IF node.type = "JoinedStr" THEN {Float(3, << 6 >>)} ELSE {})
    \cup (IF node.type = "ClassDef"
             /\ \E k \in 1..Len(node.decorator_list) :
                    /\ node.decorator_list[k].type = "Name"
                    /\ node.decorator_list[k].id = "dataclass"
          THEN {Float(3, << 7 >>)} ELSE {})
    \cup (IF node.type = "NamedExpr" THEN {Float(3, << 8 >>)} ELSE {})
    \cup (IF node.type = "BinOp" /\ node.op = "BitOr"
             /\ (node.left = "Dict" \/ node.right = "Dict")
          THEN {Float(3, << 9 >>)} ELSE {})
    \cup (IF has_match /\ node.type = "Match" THEN {Float(3, << 1, 0 >>)} ELSE {})

\* the tree walk of analyze_python_version and analyze_python_version_notebook
TreeVersions(tree, has_match) ==
    UNION {NodeVersions(tree[k], has_match) : k \in 1..Len(tree)}

-----------------------------------------------------------------------------
(* Files *)

Script(text)   == [suffix |-> ".py", content |-> text]
Notebook(doc)  == [suffix |-> ".ipynb", content |-> doc]
Other(text)    == [suffix |-> ".txt", content |-> text]

\* notebook documents, as json.load sees them
InvalidJson    == [json |-> "invalid"]
JsonArray      == [json |-> "array"]                        \* []
\* {...}: whether it has the key "cells", whether its value is a list, the list
JsonObject(has_cells, cells_is_list, cells) ==
    [json |-> "object", has_cells |-> has_cells, cells_is_list |-> cells_is_list,
     cells |-> cells]
CodeCell(source)     == [has_cell_type |-> TRUE, cell_type |-> "code", source |-> source]
MarkdownCell(source) == [has_cell_type |-> TRUE, cell_type |-> "markdown", source |-> source]
UntypedCell          == [has_cell_type |-> FALSE]
\* a cell's source: one str, or a list of str
SourceStr(text)      == [is_str |-> TRUE, text |-> text]
SourceList(texts)    == [is_str |-> FALSE, texts |-> texts]

RECURSIVE JoinTexts(_)
\* ''.join(texts) and '\n'.join(texts): the joined text has the nodes of its
\* parts in order and is malformed when a part is
JoinTexts(texts) ==
    IF texts = << >> THEN Text(FALSE, << >>)
    ELSE LET rest == JoinTexts(Tail(texts))
         IN  Text(Head(texts).malformed \/ rest.malformed, Head(texts).body \o rest.body)

\* source if isinstance(source, str) else ''.join(source)
SourceText(source) == IF source.is_str THEN source.text ELSE JoinTexts(source.texts)

\* json.load, the code_cells comprehension and the join of the notebook
\* analyzers: the combined code, or the exception raised on the way
CombinedCode(doc) ==
    IF doc.json = "invalid" THEN [exc |-> "JSONDecodeError", code |-> Text(FALSE, << >>)]
    ELSE IF doc.json = "array" THEN [exc |-> "TypeError", code |-> Text(FALSE, << >>)]
    ELSE IF ~doc.has_cells THEN [exc |-> "KeyError", code |-> Text(FALSE, << >>)]
    ELSE IF ~doc.cells_is_list THEN [exc |-> "TypeError", code |-> Text(FALSE, << >>)]
    ELSE IF \E k \in 1..Len(doc.cells) : ~doc.cells[k].has_cell_type
    THEN [exc |-> "KeyError", code |-> Text(FALSE, << >>)]
    ELSE LET code_cells == SelectSeq(doc.cells, LAMBDA cell : cell.cell_type = "code")
         IN  [exc |-> "none",
              code |-> JoinTexts([k \in 1..Len(code_cells) |-> SourceText(code_cells[k].source)])]

\* analyze_imports: [exc, value]; exc is the exception that leaves the method
analyze_imports(text, has_match) ==
    LET parsed == Parse(text, has_match)
    IN  IF parsed.exc = "SyntaxError"
        THEN [exc |-> "none", value |-> {}]
        ELSE [exc |-> "none", value |-> TreeImports(parsed.tree)]

\* analyze_notebook_imports
analyze_notebook_imports(doc, has_match) ==
    LET combined == CombinedCode(doc)
        parsed   == Parse(combined.code, has_match)
    IN  IF combined.exc \in {"JSONDecodeError", "KeyError"}
        THEN [exc |-> "none", value |-> {}]
        ELSE IF combined.exc # "none"
        THEN [exc |-> combined.exc, value |-> {}]
        ELSE IF parsed.exc = "SyntaxError"
        THEN [exc |-> "none", value |-> {}]
        ELSE [exc |-> "none", value |-> TreeImports(parsed.tree)]

\* analyze_python_version
analyze_python_version(text, has_match) ==
    LET parsed == Parse(text, has_match)
    IN  IF parsed.exc = "SyntaxError"
        THEN [exc |-> "none", value |-> {}]
        ELSE [exc |-> "none", value |-> TreeVersions(parsed.tree, has_match)]

\* analyze_python_version_notebook
analyze_python_version_notebook(doc, has_match) ==
    LET combined == CombinedCode(doc)
        parsed   == Parse(combined.code, has_match)
    IN  IF combined.exc \in {"JSONDecodeError", "KeyError"}
        THEN [exc |-> "none", value |-> {}]
        ELSE IF combined.exc # "none"
        THEN [exc |-> combined.exc, value |-> {}]
        ELSE IF parsed.exc = "SyntaxError"
        THEN [exc |-> "none", value |-> {}]
        ELSE [exc |-> "none", value |-> TreeVersions(parsed.tree, has_match)]

-----------------------------------------------------------------------------
(* Module classifier *)

\* 'site-packages' in location, on a path of segments
InLocation(marker, location) == \E k \in 1..Len(location) : location[k] = marker

\* is_standard_library without the lookup in sys.stdlib_module_names
is_standard_library_by_location(module_name, find_spec) ==
    LET spec == find_spec[module_name]
    IN  IF ~spec.found THEN FALSE
        ELSE ~InLocation("site-packages", spec.origin)
             /\ ~InLocation("dist-packages", spec.origin)

\* is_standard_library
is_standard_library(module_name, find_spec) ==
    IF module_name \in stdlib_module_names THEN TRUE
    ELSE LET spec == find_spec[module_name]
         IN  IF ~spec.found THEN FALSE
             ELSE ~InLocation("site-packages", spec.origin)
                  /\ ~InLocation("dist-packages", spec.origin)

\* the dict comprehension over distributions()
InstalledPackages(distributions) ==
    [n \in {Lower(d.Name) : d \in distributions} |->
        (CHOOSE d \in distributions : Lower(d.Name) = n).version]

EmptyDependencies == [third_party |-> {}, standard_lib |-> {}, unknown |-> {}]

\* AddDependency with the elif written as a second if
AddDependencyIfIf(dependencies_, import_name, installed, find_spec) ==
    LET import_name_lower == Lower(import_name)
        first == IF is_standard_library(import_name, find_spec)
                 THEN [dependencies_ EXCEPT !.standard_lib = @ \cup {import_name}]
                 ELSE dependencies_
    IN  IF import_name_lower \in DOMAIN installed
        THEN [first EXCEPT
                 !.third_party = @ \cup {FormatPin(import_name, installed[import_name_lower])}]
        ELSE [first EXCEPT !.unknown = @ \cup {import_name}]

\* the body of the loop over imports: one name put into its set
AddDependency(dependencies_, import_name, installed, find_spec) ==
    LET import_name_lower == Lower(import_name)
    IN  IF is_standard_library(import_name, find_spec)
        THEN [dependencies_ EXCEPT !.standard_lib = @ \cup {import_name}]
        ELSE IF import_name_lower \in DOMAIN installed
        THEN [dependencies_ EXCEPT
                 !.third_party = @ \cup {FormatPin(import_name, installed[import_name_lower])}]
        ELSE [dependencies_ EXCEPT !.unknown = @ \cup {import_name}]

RECURSIVE AddDependencies(_, _, _, _)
\* the loop over the imports of one file
AddDependencies(dependencies_, names, installed, find_spec) ==
    IF names = {} THEN dependencies_
    ELSE LET import_name == CHOOSE n \in names : TRUE
         IN  AddDependencies(AddDependency(dependencies_, import_name, installed, find_spec),
                             names \ {import_name}, installed, find_spec)

\* the returned report: each set as a sorted list
Report(dependencies_) ==
    [third_party  |-> sorted(dependencies_.third_party),
     standard_lib |-> sorted(dependencies_.standard_lib),
     unknown      |-> sorted(dependencies_.unknown)]

-----------------------------------------------------------------------------
(* Version aggregation and the environment *)

\* the result of get_python_version for the accumulated set
MinPythonVersion(versions) ==
    IF versions # {} THEN Max(versions) ELSE Float(3, << 5 >>)

\* python_version_reasoning
Reasoning(version) ==
    (IF version >= Float(3, << 1, 0 >>) THEN << "Match statements detected (Python 3.10+)" >> ELSE << >>)
    \o (IF version >= Float(3, << 9 >>) THEN << "Dictionary union operators detected (Python 3.9+)" >> ELSE << >>)
    \o (IF version >= Float(3, << 8 >>) THEN << "Walrus operator detected (Python 3.8+)" >> ELSE << >>)
    \o (IF version >= Float(3, << 7 >>) THEN << "Dataclasses detected (Python 3.7+)" >> ELSE << >>)
    \o (IF version >= Float(3, << 6 >>) THEN << "F-strings detected (Python 3.6+)" >> ELSE << >>)
    \o (IF version >= Float(3, << 5 >>) THEN << "Type hints detected (Python 3.5+)" >> ELSE << >>)

\* f'python>={python_version}'
PythonPin(version) == << "p", "y", "t", "h", "o", "n", ">", "=" >> \o FloatStr(version)

\* the environment dict of predict_python_environment
Environment(version, report) ==
    [recommended_python_version |-> version,
     python_version_reasoning   |-> Reasoning(version),
     dependencies               |-> report,
     conda_environment_yaml     |->
        [channels     |-> << "defaults", "conda-forge" >>,
         dependencies |-> << PythonPin(version), "pip", [pip |-> report.third_party] >>]]

-----------------------------------------------------------------------------
(* Projects *)

PlainScript ==
    Script(Text(FALSE, << Import(<< os_path, Np_lin >>) >>))
RelativeScript ==
    Script(Text(FALSE, << ImportFrom(NoModule, << Np >>, 1), ImportFrom(os_path, << np >>, 0), JoinedStr,
                          ClassDef(<< Name("dataclass") >>) >>))
MatchScript ==
    Script(Text(FALSE, << Import(<< Np >>), Match >>))
WalrusScript ==
    Script(Text(FALSE, << NamedExpr, BinOp("Dict", "BitOr", "Name"),
                          ClassDef(<< Attribute("dataclass") >>),
                          BinOp("Name", "BitOr", "Name") >>))
MalformedScript ==
    Script(Text(TRUE, << Import(<< Np >>), JoinedStr >>))
GoodNotebook ==
    Notebook(JsonObject(TRUE, TRUE,
        << CodeCell(SourceList(<< Text(FALSE, << Import(<< os >>) >>),
                                  Text(FALSE, << AnnAssign >>) >>)),
           MarkdownCell(SourceStr(Text(TRUE, << >>))),
           CodeCell(SourceStr(Text(FALSE, << ImportFrom(Np_lin, << os >>, 1) >>))) >>))
InvalidJsonNotebook == Notebook(InvalidJson)
ArrayNotebook       == Notebook(JsonArray)
NoCellsNotebook     == Notebook(JsonObject(FALSE, FALSE, << >>))
MalformedNotebook ==
    Notebook(JsonObject(TRUE, TRUE,
        << CodeCell(SourceStr(Text(TRUE, << Import(<< os >>), NamedExpr >>))) >>))
ReadmeFile == Other(Text(TRUE, << Import(<< Np >>) >>))

Files == { PlainScript, RelativeScript, MatchScript, WalrusScript, MalformedScript,
           GoodNotebook, InvalidJsonNotebook, ArrayNotebook, NoCellsNotebook,
           MalformedNotebook, ReadmeFile }

Projects == UNION {[1..n -> Files] : n \in 0..MaxUnits}

-----------------------------------------------------------------------------
(* predict_python_environment, step by step *)

Init ==
    /\ units \in Projects
    /\ hasMatch \in BOOLEAN
    /\ findSpec \in [ModuleNames -> Specs]
    /\ dists \in SUBSET Distributions
    /\ pc = "get_python_version"
    /\ i = 1
    /\ required_versions = {}
    /\ python_version = 0
    /\ installed_packages = << >>
    /\ imports = {}
    /\ dependencies = EmptyDependencies
    /\ deps = Report(EmptyDependencies)
    /\ environment = [recommended_python_version |-> 0]
    /\ exc = "none"

\* what one file adds to required_versions
FileVersions(file) ==
    IF file.suffix = ".py" THEN analyze_python_version(file.content, hasMatch)
    ELSE IF file.suffix = ".ipynb" THEN analyze_python_version_notebook(file.content, hasMatch)
    ELSE [exc |-> "none", value |-> {}]

\* the imports of one file
FileImports(file) ==
    IF file.suffix = ".py" THEN analyze_imports(file.content, hasMatch)
    ELSE IF file.suffix = ".ipynb" THEN analyze_notebook_imports(file.content, hasMatch)
    ELSE [exc |-> "none", value |-> {}]

\* get_python_version: one turn of the loop over the files
GetPythonVersionStep ==
    /\ pc = "get_python_version"
    /\ i <= Len(units)
    /\ LET file_versions == FileVersions(units[i])
       IN  IF file_versions.exc # "none"
           THEN /\ pc' = "raised"
                /\ exc' = file_versions.exc
                /\ UNCHANGED << i, required_versions >>
           ELSE /\ required_versions' = required_versions \cup file_versions.value
                /\ i' = i + 1
                /\ UNCHANGED << pc, exc >>
    /\ UNCHANGED << units, hasMatch, findSpec, dists, python_version, installed_packages,
                    imports, dependencies, deps, environment >>

\* get_python_version: the loop is over, the version is returned
GetPythonVersionReturn ==
    /\ pc = "get_python_version"
    /\ i > Len(units)
    /\ python_version' = MinPythonVersion(required_versions)
    /\ pc' = "detect_project_dependencies"
    /\ UNCHANGED << units, hasMatch, findSpec, dists, i, required_versions,
                    installed_packages, imports, dependencies, deps, environment, exc >>

\* detect_project_dependencies: the sets and the installed packages are set up
DetectStart ==
    /\ pc = "detect_project_dependencies"
    /\ dependencies' = EmptyDependencies
    /\ installed_packages' = InstalledPackages(dists)
    /\ i' = 1
    /\ pc' = "scan"
    /\ UNCHANGED << units, hasMatch, findSpec, dists, required_versions, python_version,
                    imports, deps, environment, exc >>

\* detect_project_dependencies: one turn of the loop over the files
DetectStep ==
    /\ pc = "scan"
    /\ i <= Len(units)
    /\ LET file_imports == FileImports(units[i])
       IN  IF file_imports.exc # "none"
           THEN /\ pc' = "raised"
                /\ exc' = file_imports.exc
                /\ UNCHANGED << i, imports, dependencies >>
           ELSE /\ imports' = file_imports.value
                /\ dependencies' = AddDependencies(dependencies, file_imports.value,
                                                   installed_packages, findSpec)
                /\ i' = i + 1
                /\ UNCHANGED << pc, exc >>
    /\ UNCHANGED << units, hasMatch, findSpec, dists, required_versions, python_version,
                    installed_packages, deps, environment >>

\* detect_project_dependencies: the loop is over, the report is returned
DetectReturn ==
    /\ pc = "scan"
    /\ i > Len(units)
    /\ deps' = Report(dependencies)
    /\ pc' = "environment"
    /\ UNCHANGED << units, hasMatch, findSpec, dists, i, required_versions, python_version,
                    installed_packages, imports, dependencies, environment, exc >>

\* predict_python_environment: the environment is built and returned
BuildEnvironment ==
    /\ pc = "environment"
    /\ environment' = Environment(python_version, deps)
    /\ pc' = "done"
    /\ UNCHANGED << units, hasMatch, findSpec, dists, i, required_versions, python_version,
                    installed_packages, imports, dependencies, deps, exc >>

Next ==
    \/ GetPythonVersionStep
    \/ GetPythonVersionReturn
    \/ DetectStart
    \/ DetectStep
    \/ DetectReturn
    \/ BuildEnvironment

Spec == Init /\ [][Next]_vars

-----------------------------------------------------------------------------
(* What the properties speak of *)

\* the elements of a list
Range(s) == {s[k] : k \in 1..Len(s)}

\* the nodes of a file that can be analyzed; none for one that cannot
FileTree(file) ==
    IF file.suffix = ".py"
    THEN Parse(file.content, hasMatch).tree
    ELSE IF file.suffix = ".ipynb"
    THEN IF CombinedCode(file.content).exc = "none"
         THEN Parse(CombinedCode(file.content).code, hasMatch).tree
         ELSE << >>
    ELSE << >>

\* p is the first dot-separated component of the dotted name n
IsFirstComponent(p, n) ==
    /\ Len(p) <= Len(n)
    /\ \A k \in 1..Len(p) : p[k] = n[k] /\ p[k] # "."
    /\ Len(p) < Len(n) => n[Len(p) + 1] = "."

Prefixes(n) == {SubSeq(n, 1, k) : k \in 0..Len(n)}

\* the dotted names a file imports from: every name of a plain import, and
\* the module of a from-import that names one
ImportedPaths(file) ==
    LET tree == FileTree(file)
    IN  UNION { IF tree[k].type = "Import" THEN Range(tree[k].names)
                ELSE IF tree[k].type = "ImportFrom" /\ Len(tree[k].module) > 0
                THEN {tree[k].module}
                ELSE {} : k \in 1..Len(tree) }

\* the top-level names of a file
TopLevelNames(file) ==
    {p \in UNION {Prefixes(n) : n \in ImportedPaths(file)} :
        \E n \in ImportedPaths(file) : IsFirstComponent(p, n)}

\* the top-level names of the project
ProjectNames == UNION {TopLevelNames(units[k]) : k \in 1..Len(units)}

\* the name of a third-party entry: the part before '=='
PinName(entry) ==
    LET at == {k \in 1..(Len(entry) - 1) : entry[k] = "=" /\ entry[k + 1] = "="}
    IN  IF at = {} THEN entry
        ELSE SubSeq(entry, 1, (CHOOSE k \in at : \A m \in at : k <= m) - 1)

StandardLibNames == Range(deps.standard_lib)
ThirdPartyNames  == {PinName(deps.third_party[k]) : k \in 1..Len(deps.third_party)}
UnknownNames     == Range(deps.unknown)

\* detect_project_dependencies has returned its report
Reported == pc \in {"environment", "done"}

-----------------------------------------------------------------------------
(* C1 *)

\* C1: the three partitions of the returned report are pairwise disjoint by
\* module name, and together they hold exactly the top-level import names of
\* the project's files.
C1_PartitionsDisjointAndComplete ==
    Reported =>
        /\ StandardLibNames \cap ThirdPartyNames = {}
        /\ StandardLibNames \cap UnknownNames = {}
        /\ ThirdPartyNames \cap UnknownNames = {}
        /\ StandardLibNames \cup ThirdPartyNames \cup UnknownNames = ProjectNames

\* a report of two files with a standard-library name and a pinned
\* third-party name, the standard-library name being installed as well
C1_Witness ==
    /\ pc = "done"
    /\ Len(units) = 2
    /\ StandardLibNames = {os}
    /\ deps.third_party = << FormatPin(Np, << "1" >>) >>
    /\ Lower(os) \in DOMAIN installed_packages

-----------------------------------------------------------------------------
(* C7 *)

\* C7: an imported name of the standard-module set is reported in
\* standard_lib and in neither third_party nor unknown, whatever the
\* installed packages and whatever find_spec answers.
C7_StandardNameIsStandardLib ==
    Reported =>
        \A n \in stdlib_module_names \cap ProjectNames :
            /\ n \in StandardLibNames
            /\ n \notin ThirdPartyNames
            /\ n \notin UnknownNames

\* os is imported, a distribution named os is installed and os resolves into
\* site-packages
C7_Witness ==
    /\ pc = "done"
    /\ os \in ProjectNames
    /\ Lower(os) \in DOMAIN installed_packages
    /\ InLocation("site-packages", findSpec[os].origin)
    /\ os \in StandardLibNames

-----------------------------------------------------------------------------
(* C8 *)

\* C8: the import set of a file is the set of first components of the names
\* of its plain imports and of the modules of its from-imports that name
\* one; a relative import without a module adds nothing to it, and so
\* nothing to the report.
C8_ImportSetIsFirstComponents ==
    /\ (pc = "scan" /\ i > 1) => imports = TopLevelNames(units[i - 1])
    /\ Reported =>
          StandardLibNames \cup ThirdPartyNames \cup UnknownNames \subseteq ProjectNames

\* the file just scanned has `from . import Np` and `from os.path import np`:
\* its import set is {os}
C8_Witness ==
    /\ pc = "scan"
    /\ i > 1
    /\ units[i - 1] = RelativeScript
    /\ imports = {os}

-----------------------------------------------------------------------------
(* Versions, as the properties speak of them: 3.5 < 3.6 < ... < 3.10 *)

\* the minor version a float names when printed: 3.9 names 9, 3.1 names 1
VersionMinor(x) == IF x % 10 = 0 THEN (x % 100) \div 10 ELSE x % 100

\* the minor versions of the features of the fixed table found at a node
FeatureMinors(node) ==
    (IF node.type = "AnnAssign" THEN {5} ELSE {})
    \cup (IF node.type = "JoinedStr" THEN {6} ELSE {})
    \cup (IF node.type = "ClassDef" /\ Name("dataclass") \in Range(node.decorator_list)
          THEN {7} ELSE {})
    \cup (IF node.type = "NamedExpr" THEN {8} ELSE {})
    \cup (IF node.type = "BinOp" /\ node.op = "BitOr" /\ "Dict" \in {node.left, node.right}
          THEN {9} ELSE {})
    \cup (IF node.type = "Match" THEN {10} ELSE {})

\* the features detected in the project: those of the files that parse
FileMinors(file) ==
    UNION {FeatureMinors(FileTree(file)[n]) : n \in 1..Len(FileTree(file))}
ProjectMinors == UNION {FileMinors(units[k]) : k \in 1..Len(units)}

\* get_python_version has returned
HasVersion == pc \in {"detect_project_dependencies", "scan", "environment", "done"}

\* C2: the recommended version is a 3.x at or above 3.5 and is the highest
\* version among the detected features, 3.5 when none is detected.
C2_VersionIsMaxFeature ==
    HasVersion =>
        /\ python_version \div 100 = 3
        /\ VersionMinor(python_version) >= 5
        /\ VersionMinor(python_version) =
              (IF ProjectMinors = {} THEN 5 ELSE Max(ProjectMinors))

\* C3: a project with a recognized match statement is recommended 3.10 and
\* its manifest pins python>=3.10.
C3_MatchRecommends310 ==
    (pc = "done" /\ 10 \in ProjectMinors) =>
        /\ VersionMinor(environment.recommended_python_version) = 10
        /\ environment.conda_environment_yaml.dependencies[1] =
              << "p", "y", "t", "h", "o", "n", ">", "=", "3", ".", "1", "0" >>

\* the reasoning line of each threshold
ReasonOf(minor) ==
    CASE minor = 5  -> "Type hints detected (Python 3.5+)"
      [] minor = 6  -> "F-strings detected (Python 3.6+)"
      [] minor = 7  -> "Dataclasses detected (Python 3.7+)"
      [] minor = 8  -> "Walrus operator detected (Python 3.8+)"
      [] minor = 9  -> "Dictionary union operators detected (Python 3.9+)"
      [] minor = 10 -> "Match statements detected (Python 3.10+)"

\* C4: the reasoning list has one line for each threshold at or below the
\* recommended version, none for a threshold above it, lowest threshold
\* first.
C4_ReasoningAscending ==
    pc = "done" =>
        LET crossed == SelectSeq(<< 5, 6, 7, 8, 9, 10 >>,
                          LAMBDA t : t <= VersionMinor(environment.recommended_python_version))
        IN  environment.python_version_reasoning =
                [k \in 1..Len(crossed) |-> ReasonOf(crossed[k])]

\* C5: while the files are scanned and the set of detected features grows,
\* the version get_python_version would return never decreases.
C5_VersionNeverDecreases ==
    [][(pc = "get_python_version" /\ pc' = "get_python_version") =>
          MinPythonVersion(required_versions') >= MinPythonVersion(required_versions)]_vars

\* C6: a file that cannot be analyzed raises nothing to the caller and adds
\* nothing; the versions and the names reported are those of the other files.
C6_UnanalyzableFileIsSkipped ==
    /\ exc = "none"
    /\ pc # "raised"
    /\ HasVersion =>
          required_versions =
              UNION {TreeVersions(FileTree(units[k]), hasMatch) : k \in 1..Len(units)}
    /\ Reported =>
          Range(deps.standard_lib) \cup Range(deps.unknown)
              \cup {PinName(e) : e \in Range(deps.third_party)} = ProjectNames

\* find_spec resolves the name into site-packages or dist-packages
ResolvesToThirdParty(n) ==
    /\ findSpec[n].found
    /\ InLocation("site-packages", findSpec[n].origin)
          \/ InLocation("dist-packages", findSpec[n].origin)

\* C9: a name outside the standard-module set that resolves to a third-party
\* location and has no installed-package entry is reported in third_party as
\* the bare name, and not in unknown.
C9_UnregisteredThirdPartyIsBare ==
    Reported =>
        \A n \in ProjectNames \ stdlib_module_names :
            (ResolvesToThirdParty(n) /\ Lower(n) \notin DOMAIN installed_packages) =>
                /\ n \in Range(deps.third_party)
                /\ n \notin UnknownNames

\* C10: a name outside the standard-module set that find_spec cannot resolve
\* is reported in unknown, whatever is installed.
C10_UnresolvedIsUnknown ==
    Reported =>
        \A n \in ProjectNames \ stdlib_module_names :
            ~findSpec[n].found =>
                /\ n \in UnknownNames
                /\ n \notin ThirdPartyNames
                /\ n \notin StandardLibNames

=============================================================================
